---- MODULE Spec2Model ----
(***************************************************************************)
(* Model of lidar_align's Loader (src/src/loader.cpp): the point-cloud     *)
(* schema detector parsePointcloudMsg, the CSV transform parser            *)
(* getNextCSVTransform and the three load drivers                          *)
(* loadPointcloudFromROSBag, loadTformFromROSBag, loadTformFromMaplabCSV.  *)
(* Floating-point values are tokens; characters are one-character strings. *)
(***************************************************************************)
EXTENDS Integers, Sequences, FiniteSets, TLC

\* ------------------------------------------------------------------------
\* Bounds of the model
\* ------------------------------------------------------------------------
MaxPoints == 2      \* rows per point-cloud record (parser specification)
MaxExtraFields == 2 \* declared fields besides x, y, z
MaxRecords == 3     \* records per container view
MaxCap == 2         \* largest use_n_scans
MaxLines == 3       \* lines per text stream
MaxExtraCols == 1   \* columns of a text line past index 8

Range(s) == {s[i] : i \in 1..Len(s)}
SeqUpTo(S, n) == UNION {[1..k -> S] : k \in 0..n}

\* ------------------------------------------------------------------------
\* Point-cloud records (sensor_msgs::PointCloud2)
\* ------------------------------------------------------------------------
NonFinite == {"nan", "inf", "-inf"}
Absent == "absent"        \* a column the record does not declare
DefaultValue == "0"       \* value of a point field a conversion does not fill
UninitValues == {"0", "garbage"}  \* a field of `PointAllFields point;` never assigned

ExtraFieldNames == {"intensity", "time_offset_us", "ring"}
FieldValues ==
  [x |-> {"1.0", "2.0", "nan"}, y |-> {"1.0", "inf"}, z |-> {"1.0", "-inf"},
   intensity |-> {"0.5", "nan"}, time_offset_us |-> {"7"}, ring |-> {"3"}]
Headers == {"hdr"}

\* declared field lists: x, y, z followed by distinct extra fields in any order
ExtraLists ==
  {s \in SeqUpTo(ExtraFieldNames, MaxExtraFields) :
      \A i, j \in 1..Len(s) : i # j => s[i] # s[j]}
FieldLists == {<<"x", "y", "z">> \o s : s \in ExtraLists}

ColumnValues(fl, f) == IF f \in Range(fl) THEN FieldValues[f] ELSE {Absent}
RowsFor(fl) ==
  [x : ColumnValues(fl, "x"), y : ColumnValues(fl, "y"), z : ColumnValues(fl, "z"),
   intensity : ColumnValues(fl, "intensity"),
   time_offset_us : ColumnValues(fl, "time_offset_us"),
   ring : ColumnValues(fl, "ring")]
MsgsUpTo(n) ==
  UNION {[fields : {fl}, rows : SeqUpTo(RowsFor(fl), n), header : Headers] :
           fl \in FieldLists}
Msgs == MsgsUpTo(MaxPoints)

\* point types the record is converted to
PointXYZ == {"x", "y", "z"}
Point == {"x", "y", "z", "intensity"}
PointAllFields == {"x", "y", "z", "intensity", "time_offset_us"}

isfinite(v) == v \notin NonFinite

\* pcl::fromROSMsg(msg, cloud): one point per row; a field of the point type
\* is copied from the column of the same name, or left at its default when the
\* record does not declare it; columns the point type lacks are ignored.
fromROSMsg(msg, PointT) ==
  [points |-> [i \in 1..Len(msg.rows) |->
                 [f \in PointT |-> IF f \in Range(msg.fields)
                                     THEN msg.rows[i][f] ELSE DefaultValue]],
   header |-> msg.header]

\* loader.cpp:21-29, the loop over msg.fields
RECURSIVE ScanFieldsBreak(_, _, _)
ScanFieldsBreak(fields, i, flags) ==
  IF i > Len(fields) THEN flags
  ELSE IF fields[i] = "time_offset_us"
         THEN [flags EXCEPT !.has_timing = TRUE]
       ELSE IF fields[i] = "intensity"
         THEN [flags EXCEPT !.has_intensity = TRUE]
       ELSE ScanFieldsBreak(fields, i + 1, flags)
RECURSIVE ScanFields(_, _, _)
ScanFields(fields, i, flags) ==
  IF i > Len(fields) THEN flags
  ELSE IF fields[i] = "time_offset_us"
         THEN ScanFields(fields, i + 1, [flags EXCEPT !.has_timing = TRUE])
       ELSE IF fields[i] = "intensity"
         THEN ScanFields(fields, i + 1, [flags EXCEPT !.has_intensity = TRUE])
       ELSE ScanFields(fields, i + 1, flags)

\* loader.cpp:38-51, the filtering loop of the intensity branch
RECURSIVE FilterIntensityXYZOnly(_, _, _, _)
FilterIntensityXYZOnly(raw, i, out, uninit) ==
  IF i > Len(raw) THEN out
  ELSE LET raw_point == raw[i]
           point == [x |-> raw_point.x, y |-> raw_point.y, z |-> raw_point.z,
                     intensity |-> raw_point.intensity,
                     time_offset_us |-> uninit]
       IN IF ~isfinite(point.x) \/ ~isfinite(point.y) \/ ~isfinite(point.z)
            THEN FilterIntensityXYZOnly(raw, i + 1, out, uninit)
            ELSE FilterIntensityXYZOnly(raw, i + 1, Append(out, point), uninit)
RECURSIVE FilterIntensity(_, _, _, _)
FilterIntensity(raw, i, out, uninit) ==
  IF i > Len(raw) THEN out
  ELSE LET raw_point == raw[i]
           point == [x |-> raw_point.x, y |-> raw_point.y, z |-> raw_point.z,
                     intensity |-> raw_point.intensity,
                     time_offset_us |-> uninit]
       IN IF ~isfinite(point.x) \/ ~isfinite(point.y) \/
             ~isfinite(point.z) \/ ~isfinite(point.intensity)
            THEN FilterIntensity(raw, i + 1, out, uninit)
            ELSE FilterIntensity(raw, i + 1, Append(out, point), uninit)

\* loader.cpp:57-69, the filtering loop of the bare x/y/z branch
RECURSIVE FilterXYZFront(_, _, _, _)
FilterXYZFront(raw, i, out, uninit) ==
  IF i > Len(raw) THEN out
  ELSE LET raw_point == raw[i]
           point == [x |-> raw_point.x, y |-> raw_point.y, z |-> raw_point.z,
                     intensity |-> uninit, time_offset_us |-> uninit]
       IN IF ~isfinite(point.x) \/ ~isfinite(point.y) \/ ~isfinite(point.z)
            THEN FilterXYZFront(raw, i + 1, out, uninit)
            ELSE FilterXYZFront(raw, i + 1, <<point>> \o out, uninit)
RECURSIVE FilterXYZ(_, _, _, _)
FilterXYZ(raw, i, out, uninit) ==
  IF i > Len(raw) THEN out
  ELSE LET raw_point == raw[i]
           point == [x |-> raw_point.x, y |-> raw_point.y, z |-> raw_point.z,
                     intensity |-> uninit, time_offset_us |-> uninit]
       IN IF ~isfinite(point.x) \/ ~isfinite(point.y) \/ ~isfinite(point.z)
            THEN FilterXYZ(raw, i + 1, out, uninit)
            ELSE FilterXYZ(raw, i + 1, Append(out, point), uninit)

\* loader.cpp:31-33, the time-offset branch: direct conversion, no filtering
DecodeTimingFiltered(msg) ==
  LET raw == fromROSMsg(msg, PointAllFields)
  IN [points |-> SelectSeq(raw.points,
                   LAMBDA p : isfinite(p.x) /\ isfinite(p.y) /\ isfinite(p.z)),
      header |-> raw.header]
DecodeTiming(msg) == fromROSMsg(msg, PointAllFields)

\* loader.cpp:19-72.  pointcloud is the caller's (empty) output cloud; ran is
\* the set of decode branches that executed.
parsePointcloudMsg(msg, pointcloud, uninit) ==
  LET flags == ScanFields(msg.fields, 1,
                          [has_timing |-> FALSE, has_intensity |-> FALSE])
  IN IF flags.has_timing
       THEN [cloud |-> DecodeTiming(msg), ran |-> {"timing"}]
     ELSE IF flags.has_intensity
       THEN LET raw_pointcloud == fromROSMsg(msg, Point)
            IN [cloud |-> [points |-> FilterIntensity(raw_pointcloud.points, 1,
                                        pointcloud.points, uninit),
                           header |-> raw_pointcloud.header],
                ran |-> {"intensity"}]
     ELSE LET raw_pointcloud == fromROSMsg(msg, PointXYZ)
          IN [cloud |-> [points |-> FilterXYZ(raw_pointcloud.points, 1,
                                      pointcloud.points, uninit),
                         header |-> raw_pointcloud.header],
              ran |-> {"xyz"}]

EmptyCloud == [points |-> <<>>, header |-> "none"]  \* LoaderPointcloud pointcloud;

\* ------------------------------------------------------------------------
\* Text source: characters, lines, cells, numbers
\* ------------------------------------------------------------------------
LF == "\n"
DigitVal ==
  [c \in {"0", "1", "2", "3", "4", "5", "6", "7", "8", "9"} |->
     CASE c = "0" -> 0 [] c = "1" -> 1 [] c = "2" -> 2 [] c = "3" -> 3
       [] c = "4" -> 4 [] c = "5" -> 5 [] c = "6" -> 6 [] c = "7" -> 7
       [] c = "8" -> 8 [] c = "9" -> 9]
IsDigit(c) == c \in DOMAIN DigitVal
IsSpace(c) == c = " "

\* digits of LLONG_MAX = 9223372036854775807 and of -LLONG_MIN
LLongMaxDigits ==
  <<"9","2","2","3","3","7","2","0","3","6","8","5","4","7","7","5","8","0","7">>
LLongMinDigits ==
  <<"9","2","2","3","3","7","2","0","3","6","8","5","4","7","7","5","8","0","8">>
RECURSIVE StripZeros(_)
StripZeros(d) == IF Len(d) > 1 /\ Head(d) = "0" THEN StripZeros(Tail(d)) ELSE d
\* the digit string a exceeds the digit string b (same length)
RECURSIVE DigitsGreater(_, _)
DigitsGreater(a, b) ==
  IF a = <<>> THEN FALSE
  ELSE IF DigitVal[Head(a)] # DigitVal[Head(b)]
    THEN DigitVal[Head(a)] > DigitVal[Head(b)]
  ELSE DigitsGreater(Tail(a), Tail(b))
\* the magnitude written by the digits d does not fit a long long
OutOfRange(d, negative) ==
  LET z == StripZeros(d)
      limit == IF negative THEN LLongMinDigits ELSE LLongMaxDigits
  IN Len(z) > Len(limit) \/ (Len(z) = Len(limit) /\ DigitsGreater(z, limit))

\* C++ integer division: the quotient is truncated toward zero
TruncDiv(a, b) == IF a >= 0 THEN a \div b ELSE -((-a) \div b)

\* std::getline(str, line): the characters from position p up to the next
\* newline, which is consumed and not stored; stops at end of input
RECURSIVE getlineKeepDelim(_, _, _)
getlineKeepDelim(str, p, acc) ==
  IF p > Len(str) \/ str[p] = LF THEN [line |-> acc, pos |-> p]
  ELSE getlineKeepDelim(str, p + 1, Append(acc, str[p]))
RECURSIVE getline(_, _, _)
getline(str, p, acc) ==
  IF p > Len(str) THEN [line |-> acc, pos |-> p]
  ELSE IF str[p] = LF THEN [line |-> acc, pos |-> p + 1]
  ELSE getline(str, p + 1, Append(acc, str[p]))

\* loader.cpp:198-204: while (std::getline(line_stream, cell, ',')).  A cell
\* is extracted while characters or a delimiter remain; nothing follows a
\* trailing delimiter.
RECURSIVE SplitCells(_, _, _)
SplitCells(line, p, cell) ==
  IF p > Len(line) THEN (IF cell = <<>> /\ (p = 1 \/ line[p - 1] = ",")
                           THEN <<>> ELSE <<cell>>)
  ELSE IF line[p] = "," THEN <<cell>> \o SplitCells(line, p + 1, <<>>)
  ELSE SplitCells(line, p + 1, Append(cell, line[p]))

\* F applied to the value of v, computed once
Bind(v, F(_)) == CHOOSE r \in {F(x) : x \in {v}} : TRUE

SkipSpace(s) ==
  LET idx == {i \in 1..Len(s) : ~IsSpace(s[i])}
  IN IF idx = {} THEN <<>>
     ELSE SubSeq(s, CHOOSE i \in idx : \A j \in idx : i <= j, Len(s))
\* longest prefix of digits of s
DigitPrefixLen(s) ==
  LET stop == {i \in 1..Len(s) : ~IsDigit(s[i])}
  IN IF stop = {} THEN Len(s)
     ELSE (CHOOSE i \in stop : \A j \in stop : i <= j) - 1
RECURSIVE DigitsValue(_, _, _)
DigitsValue(s, n, acc) ==
  IF n = 0 THEN acc
  ELSE DigitsValue(Tail(s), n - 1, acc * 10 + DigitVal[Head(s)])
HasSign(s) == s # <<>> /\ Head(s) \in {"-", "+"}
Unsigned(s) == IF HasSign(s) THEN Tail(s) ELSE s
SignOf(s) == IF s # <<>> /\ Head(s) = "-" THEN -1 ELSE 1

\* std::stoll: leading blanks, an optional sign, then decimal digits up to
\* the first other character.  No digit: std::invalid_argument; a value
\* outside long long: std::out_of_range.
stoll(str) ==
  Bind(SkipSpace(str), LAMBDA s :
  Bind(Unsigned(s), LAMBDA u :
  Bind(DigitPrefixLen(u), LAMBDA n :
    IF n = 0 THEN [ok |-> FALSE, val |-> 0]
    ELSE IF OutOfRange(SubSeq(u, 1, n), SignOf(s) = -1)
      THEN [ok |-> FALSE, val |-> 0]
    ELSE [ok |-> TRUE, val |-> SignOf(s) * DigitsValue(u, n, 0)])))

\* a decimal value num * 10^-scale, trailing fraction zeros removed
RECURSIVE Normalize(_, _)
Normalize(num, scale) ==
  IF scale > 0 /\ num % 10 = 0 THEN Normalize(num \div 10, scale - 1)
  ELSE [num |-> num, scale |-> scale]

\* std::stod on decimal text: leading blanks, an optional sign, digits with
\* an optional fraction, up to the first other character.  No digit:
\* std::invalid_argument.
stod(str) ==
  Bind(SkipSpace(str), LAMBDA s :
  Bind(Unsigned(s), LAMBDA u :
  Bind(DigitPrefixLen(u), LAMBDA n :
    LET rest == SubSeq(u, n + 1, Len(u))
        hasDot == rest # <<>> /\ Head(rest) = "."
    IN Bind(IF hasDot THEN Tail(rest) ELSE <<>>, LAMBDA frac :
       Bind(DigitPrefixLen(frac), LAMBDA k :
         LET mag == DigitsValue(u, n, 0) * (10 ^ k) + DigitsValue(frac, k, 0)
         IN IF n = 0 /\ k = 0 THEN [ok |-> FALSE, val |-> Normalize(0, 0)]
            ELSE [ok |-> TRUE, val |-> Normalize(SignOf(s) * mag, k)])))))

\* Transform(Translation(x, y, z), Rotation(w, x, y, z))
Transform(tx, ty, tz, rw, rx, ry, rz) ==
  [translation |-> <<tx, ty, tz>>, rotation |-> <<rw, rx, ry, rz>>]

TIME == 0
XShifted == TIME + 1
X == 2
Y == 3
Z == 4
RW == 5
RX == 6
RY == 7
RZ == 8

getNextCSVTransformNoComment(str, p) ==
  LET rd == getline(str, p, <<>>)
      line == rd.line
      data == SplitCells(line, 1, <<>>)
      num(c) == stod(data[c + 1])
  IN IF Len(data) < 9
       THEN [result |-> "none", pos |-> rd.pos]
     ELSE IF ~stoll(data[TIME + 1]).ok
             \/ \E c \in {X, Y, Z, RW, RX, RY, RZ} : ~num(c).ok
       THEN [result |-> "throw", pos |-> rd.pos]
     ELSE [result |-> "sample", pos |-> rd.pos,
           stamp |-> TruncDiv(stoll(data[TIME + 1]).val, 1000),
           T |-> Transform(num(X).val, num(Y).val, num(Z).val,
                           num(RW).val, num(RX).val, num(RY).val, num(RZ).val)]

\* loader.cpp:188-226 on the stream str at position p.  result is "sample"
\* (returns true), "none" (returns false) or "throw" (a numeric conversion
\* raised); pos is the stream position after the call.  data is 0-indexed
\* in the source, so data[c] there is data[c + 1] here.
getNextCSVTransform(str, p) ==
  Bind(getline(str, p, <<>>), LAMBDA rd :
  Bind(SplitCells(rd.line, 1, <<>>), LAMBDA data :
    LET line == rd.line
        num(c) == stod(data[c + 1])
    IN IF line # <<>> /\ line[1] = "#"
         THEN [result |-> "none", pos |-> rd.pos]
       ELSE IF Len(data) < 9
         THEN [result |-> "none", pos |-> rd.pos]
       ELSE IF ~stoll(data[TIME + 1]).ok
               \/ \E c \in {X, Y, Z, RW, RX, RY, RZ} : ~num(c).ok
         THEN [result |-> "throw", pos |-> rd.pos]
       ELSE [result |-> "sample", pos |-> rd.pos,
             stamp |-> TruncDiv(stoll(data[TIME + 1]).val, 1000),
             T |-> Transform(num(X).val, num(Y).val, num(Z).val,
                             num(RW).val, num(RX).val, num(RY).val,
                             num(RZ).val)]))

\* ------------------------------------------------------------------------
\* 64-bit integers: a sign and a magnitude written as base-1000 limbs, least
\* significant first, without leading zero limbs (zero is <<>>)
\* ------------------------------------------------------------------------
Base == 1000
RECURSIVE BigTrim(_)
BigTrim(a) ==
  IF a # <<>> /\ a[Len(a)] = 0 THEN BigTrim(SubSeq(a, 1, Len(a) - 1)) ELSE a
\* the number written as groups of three decimal digits, most significant first
RECURSIVE Reverse(_)
Reverse(a) == IF a = <<>> THEN <<>> ELSE Append(Reverse(Tail(a)), Head(a))
Big(groups) == BigTrim(Reverse(groups))
Limb(a) == IF a = <<>> THEN 0 ELSE Head(a)
Rest(a) == IF a = <<>> THEN <<>> ELSE Tail(a)
RECURSIVE BigAddC(_, _, _)
BigAddC(a, b, carry) ==
  IF a = <<>> /\ b = <<>> THEN (IF carry = 0 THEN <<>> ELSE <<carry>>)
  ELSE LET x == Limb(a) + Limb(b) + carry
       IN <<x % Base>> \o BigAddC(Rest(a), Rest(b), x \div Base)
BigAdd(a, b) == BigTrim(BigAddC(a, b, 0))
\* a * c for a factor c of at most a few million
RECURSIVE BigMulC(_, _, _)
BigMulC(a, c, carry) ==
  IF a = <<>> /\ carry = 0 THEN <<>>
  ELSE LET x == Limb(a) * c + carry
       IN <<x % Base>> \o BigMulC(Rest(a), c, x \div Base)
BigMulSmall(a, c) == BigTrim(BigMulC(a, c, 0))
\* quotient and remainder of a by a divisor d of at most Base
RECURSIVE BigDivR(_, _)
BigDivR(a, d) ==
  IF a = <<>> THEN [q |-> <<>>, r |-> 0]
  ELSE LET hi == BigDivR(Tail(a), d)
           x == hi.r * Base + Head(a)
       IN [q |-> <<x \div d>> \o hi.q, r |-> x % d]
BigDivSmall(a, d) == BigTrim(BigDivR(a, d).q)
RECURSIVE BigLess(_, _)
BigLess(a, b) ==
  IF Len(a) # Len(b) THEN Len(a) < Len(b)
  ELSE IF a = <<>> THEN FALSE
  ELSE IF a[Len(a)] # b[Len(b)] THEN a[Len(a)] < b[Len(b)]
  ELSE BigLess(SubSeq(a, 1, Len(a) - 1), SubSeq(b, 1, Len(b) - 1))
\* a - b for a >= b
RECURSIVE BigSubB(_, _, _)
BigSubB(a, b, borrow) ==
  IF a = <<>> THEN <<>>
  ELSE LET x == Limb(a) - Limb(b) - borrow
       IN IF x < 0 THEN <<x + Base>> \o BigSubB(Rest(a), Rest(b), 1)
          ELSE <<x>> \o BigSubB(Rest(a), Rest(b), 0)
BigSub(a, b) == BigTrim(BigSubB(a, b, 0))
Two63 == Big(<<9, 223, 372, 36, 854, 775, 808>>)
Two64 == Big(<<18, 446, 744, 73, 709, 551, 616>>)
\* the long long holding a non-negative result below 2^64: values from 2^63
\* on do not fit and come out negative
ToInt64(mag) ==
  IF BigLess(mag, Two63) THEN [neg |-> FALSE, mag |-> mag]
  ELSE [neg |-> TRUE, mag |-> BigSub(Two64, mag)]

\* ------------------------------------------------------------------------
\* Accumulators handed to the loader (declared in sensors.h)
\* ------------------------------------------------------------------------
\* Lidar: the ordered scans; Odom: the ordered (stamp, transform) samples
addPointcloud(l, cloud) == Append(l, cloud)
getNumberOfScans(l) == Len(l)
RECURSIVE getTotalPoints(_)
getTotalPoints(l) ==
  IF l = <<>> THEN 0 ELSE Len(Head(l).points) + getTotalPoints(Tail(l))
addTransformData(o, stamp, T) == Append(o, [stamp |-> stamp, T |-> T])
empty(o) == o = <<>>

\* ------------------------------------------------------------------------
\* Inputs of the load specification
\* ------------------------------------------------------------------------
ScanOp == "loadPointcloudFromROSBag"
TformOp == "loadTformFromROSBag"
CsvOp == "loadTformFromMaplabCSV"
Ops == {ScanOp, TformOp, CsvOp}

\* the records a container of the load specification is made of
FiniteRow(fl) ==
  CHOOSE r \in RowsFor(fl) : r.x = "1.0" /\ r.y = "1.0" /\ r.z = "1.0"
                               /\ r.intensity \in {"0.5", Absent}
NanRow(fl) == [FiniteRow(fl) EXCEPT !.x = "nan"]
Msg(fl, rows) == [fields |-> fl, rows |-> rows, header |-> "hdr"]
SampleMsgs ==
  LET xyz == <<"x", "y", "z">>
      xyzi == <<"x", "y", "z", "intensity">>
      xyzit == <<"x", "y", "z", "intensity", "time_offset_us">>
  IN {Msg(xyz, <<FiniteRow(xyz)>>), Msg(xyzi, <<NanRow(xyzi)>>),
      Msg(xyzi, <<>>), Msg(xyzit, <<NanRow(xyzit)>>)}

PriorCloud ==
  [points |-> <<[x |-> "2.0", y |-> "1.0", z |-> "1.0", intensity |-> "0.5",
                 time_offset_us |-> "7"]>>,
   header |-> "hdr"]
PriorSample ==
  [stamp |-> 1, T |-> [translation |-> <<0, 0, 0>>, rotation |-> <<1, 0, 0, 0>>]]
PriorBagSample == [PriorSample EXCEPT !.stamp = ToInt64(Big(<<1>>))]

\* geometry_msgs::PoseStamped records
SamplePoseMsgs ==
  LET P1 == [position |-> <<1, 2, 3>>, orientation |-> <<1, 0, 0, 0>>]
      P2 == [position |-> <<0, 0, 0>>, orientation |-> <<0, 0, 0, 2>>]
  IN {[sec |-> Big(<<5>>), nsec |-> Big(<<500, 0, 0>>), pose |-> P1],
      [sec |-> Big(<<5>>), nsec |-> Big(<<500, 0, 0>>), pose |-> P2],
      [sec |-> Big(<<5>>), nsec |-> Big(<<999>>), pose |-> P1],
      [sec |-> Big(<<0>>), nsec |-> Big(<<1, 0>>), pose |-> P2]}
\* uint32 seconds and nanoseconds of a header stamp, up to 2^32 - 1
WideSecs == {Big(<<0>>), Big(<<5>>), Big(<<6>>), Big(<<4, 294, 967, 295>>)}
WideNsecs ==
  {Big(<<0>>), Big(<<999>>), Big(<<1, 0>>), Big(<<500, 0, 0>>),
   Big(<<999, 999, 999>>), Big(<<1, 0, 0, 0>>), Big(<<4, 294, 967, 295>>)}
WidePoseMsgs ==
  [sec : WideSecs, nsec : WideNsecs,
   pose : {[position |-> <<1, 2, 3>>, orientation |-> <<1, 0, 0, 0>>]}]

\* text lines, written as cells joined by commas
RECURSIVE JoinCells(_)
JoinCells(cells) ==
  IF cells = <<>> THEN <<>>
  ELSE IF Len(cells) = 1 THEN cells[1]
  ELSE cells[1] \o <<",">> \o JoinCells(Tail(cells))
SampleLines ==
  {JoinCells(<< <<"2","5","0","0">>, <<"0">>, <<"1",".","5">>, <<"2">>, <<"3">>,
                <<"1">>, <<"0">>, <<"0">>, <<"0">> >>),
   JoinCells(<< <<"-","1","9","9","9">>, <<"q">>, <<"0">>, <<"0">>, <<"-","1">>,
                <<"0">>, <<"0">>, <<"0">>, <<"1">>, <<"z">> >>),
   JoinCells(<< <<"x">>, <<"0">>, <<"1">>, <<"2">>, <<"3">>,
                <<"1">>, <<"0">>, <<"0">>, <<"0">> >>),
   JoinCells(<< <<"7","0","0","0">>, <<"0">>, <<"1">>, <<"2">>, <<"3">>,
                <<"1">>, <<"n">>, <<"0">>, <<"0">> >>),
   JoinCells(<< LLongMinDigits, <<"0">>, <<"1">>, <<"2">>, <<"3">>,
                <<"1">>, <<"0">>, <<"0">>, <<"0">> >>),
   JoinCells(<< <<"#","9","0","0","0">>, <<"0">>, <<"1">>, <<"2">>, <<"3">>,
                <<"1">>, <<"0">>, <<"0">>, <<"0">> >>),
   <<>>,
   JoinCells(<< <<"1">>, <<"2">>, <<"3">>, <<"4">>, <<"5">> >>),
   JoinCells(<< <<"1">>, <<"2">>, <<"3">>, <<"4">>, <<"5">>, <<"6">>, <<"7">>,
                <<"8">>, <<>> >>)}
\* the stream holding the given lines, the last one with or without newline
RECURSIVE FileOf(_, _)
FileOf(lines, final_newline) ==
  IF lines = <<>> THEN <<>>
  ELSE IF Len(lines) = 1
    THEN lines[1] \o (IF final_newline THEN <<LF>> ELSE <<>>)
  ELSE lines[1] \o <<LF>> \o FileOf(Tail(lines), final_newline)
SampleFiles ==
  {FileOf(ls, nl) : ls \in SeqUpTo(SampleLines, MaxLines), nl \in BOOLEAN}
\* the lines on which no numeric conversion throws, and the files made of them
NumericLines ==
  {l \in SampleLines : getNextCSVTransform(l, 1).result # "throw"}
NumericFiles ==
  {FileOf(ls, nl) : ls \in SeqUpTo(NumericLines, MaxLines), nl \in BOOLEAN}

\* ------------------------------------------------------------------------
\* State
\* ------------------------------------------------------------------------
VARIABLES
  op,          \* the load driver that is called
  pc,          \* position of the driver
  opens,       \* whether the path names a container / file that can be opened
  use_n_scans, \* config_.use_n_scans
  view,        \* rosbag::View: the records of the queried type, in bag order
  it,          \* index of the next record of view
  m,           \* the record the loop holds
  pointcloud,  \* LoaderPointcloud pointcloud of the loop body
  ran,         \* decode branches run by the last parsePointcloudMsg
  file,        \* characters of the text file
  fpos,        \* read position of the ifstream
  lidar,       \* Lidar* lidar: the scans
  odom,        \* Odom* odom: the transform samples
  ret,         \* value returned by the driver
  log,         \* last ROS_ERROR_STREAM message
  lidar0,      \* the scans held when the driver was called
  odom0        \* the samples held when the driver was called

vars == <<lidar0, odom0, op, pc, opens, use_n_scans, view, it, m, pointcloud, ran, file, fpos,
          lidar, odom, ret, log>>

NoMsg == [fields |-> <<>>, rows |-> <<>>, header |-> "none"]
EOF == "EOF"
\* file.peek(): EOF on a stream that failed to open or is exhausted
peek == IF ~opens \/ fpos > Len(file) THEN EOF ELSE file[fpos]

Init ==
  /\ op \in Ops
  /\ pc = "Opening"
  /\ opens \in BOOLEAN
  /\ use_n_scans \in (IF op = ScanOp THEN 0..MaxCap ELSE {MaxCap})
  /\ view \in (IF op = ScanOp THEN SeqUpTo(SampleMsgs, MaxRecords)
               ELSE IF op = TformOp THEN SeqUpTo(SamplePoseMsgs, MaxRecords)
               ELSE {<<>>})
  /\ it = 1
  /\ m = NoMsg
  /\ pointcloud = EmptyCloud
  /\ ran = {}
  /\ file \in (IF op = CsvOp THEN SampleFiles ELSE {<<>>})
  /\ fpos = 1
  /\ lidar \in (IF op = ScanOp THEN {<<>>, <<PriorCloud>>} ELSE {<<>>})
  /\ odom \in (IF op = ScanOp THEN {<<>>}
               ELSE IF op = TformOp THEN {<<>>, <<PriorBagSample>>}
               ELSE {<<>>, <<PriorSample>>})
  /\ ret = "none"
  /\ log = "none"
  /\ lidar0 = lidar
  /\ odom0 = odom

\* ------------------------------------------------------------------------
\* loadPointcloudFromROSBag
\* ------------------------------------------------------------------------
\* loader.cpp:77-89: bag.open, the view over sensor_msgs/PointCloud2
ScanOpen ==
  /\ op = ScanOp /\ pc = "Opening"
  /\ IF opens
       THEN pc' = "Iterating" /\ UNCHANGED <<ret, log>>
       ELSE pc' = "Returned" /\ ret' = "false" /\ log' = "LOADING BAG FAILED"
  /\ UNCHANGED <<lidar0, odom0, op, opens, use_n_scans, view, it, m, pointcloud, ran, file,
                 fpos, lidar, odom>>

\* loader.cpp:90-94: the loop pulls the next record, or ends
ScanPullCapFirst ==
  /\ op = ScanOp /\ pc = "Iterating"
  /\ IF it <= Len(view) /\ getNumberOfScans(lidar) < use_n_scans
       THEN /\ m' = view[it]
            /\ it' = it + 1
            /\ pointcloud' = EmptyCloud
            /\ pc' = "Decode"
       ELSE /\ pc' = "Finished"
            /\ UNCHANGED <<m, it, pointcloud>>
  /\ UNCHANGED <<lidar0, odom0, op, opens, use_n_scans, view, ran, file, fpos,
                 lidar, odom, ret, log>>
ScanPull ==
  /\ op = ScanOp /\ pc = "Iterating"
  /\ IF it <= Len(view)
       THEN /\ m' = view[it]
            /\ it' = it + 1
            /\ pointcloud' = EmptyCloud
            /\ pc' = "Decode"
       ELSE /\ pc' = "Finished"
            /\ UNCHANGED <<m, it, pointcloud>>
  /\ UNCHANGED <<lidar0, odom0, op, opens, use_n_scans, view, ran, file, fpos, lidar, odom,
                 ret, log>>

\* loader.cpp:95-96
ScanDecode ==
  /\ op = ScanOp /\ pc = "Decode"
  /\ \E uninit \in UninitValues :
       LET r == parsePointcloudMsg(m, pointcloud, uninit)
       IN pointcloud' = r.cloud /\ ran' = r.ran
  /\ pc' = "Feed"
  /\ UNCHANGED <<lidar0, odom0, op, opens, use_n_scans, view, it, m, file, fpos, lidar, odom,
                 ret, log>>

\* loader.cpp:98
ScanFeedNonEmpty ==
  /\ op = ScanOp /\ pc = "Feed"
  /\ lidar' = IF pointcloud.points = <<>> THEN lidar
              ELSE addPointcloud(lidar, pointcloud)
  /\ pc' = "CapTest"
  /\ UNCHANGED <<lidar0, odom0, op, opens, use_n_scans, view, it, m, pointcloud,
                 ran, file, fpos, odom, ret, log>>
ScanFeed ==
  /\ op = ScanOp /\ pc = "Feed"
  /\ lidar' = addPointcloud(lidar, pointcloud)
  /\ pc' = "CapTest"
  /\ UNCHANGED <<lidar0, odom0, op, opens, use_n_scans, view, it, m, pointcloud, ran, file,
                 fpos, odom, ret, log>>

\* loader.cpp:100-102
ScanCapTestGt ==
  /\ op = ScanOp /\ pc = "CapTest"
  /\ pc' = IF getNumberOfScans(lidar) > use_n_scans
             THEN "Finished" ELSE "Iterating"
  /\ UNCHANGED <<lidar0, odom0, op, opens, use_n_scans, view, it, m, pointcloud,
                 ran, file, fpos, lidar, odom, ret, log>>
ScanCapTest ==
  /\ op = ScanOp /\ pc = "CapTest"
  /\ pc' = IF getNumberOfScans(lidar) >= use_n_scans
             THEN "Finished" ELSE "Iterating"
  /\ UNCHANGED <<lidar0, odom0, op, opens, use_n_scans, view, it, m, pointcloud, ran, file,
                 fpos, lidar, odom, ret, log>>

\* loader.cpp:104-111
ScanFinishNoCheck ==
  /\ op = ScanOp /\ pc = "Finished"
  /\ ret' = "true"
  /\ pc' = "Returned"
  /\ UNCHANGED <<lidar0, odom0, op, opens, use_n_scans, view, it, m, pointcloud,
                 ran, file, fpos, lidar, odom, log>>
ScanFinishScans ==
  /\ op = ScanOp /\ pc = "Finished"
  /\ IF getNumberOfScans(lidar) = 0
       THEN ret' = "false" /\ log' = "No points were loaded"
       ELSE ret' = "true" /\ UNCHANGED log
  /\ pc' = "Returned"
  /\ UNCHANGED <<lidar0, odom0, op, opens, use_n_scans, view, it, m, pointcloud,
                 ran, file, fpos, lidar, odom>>
ScanFinish ==
  /\ op = ScanOp /\ pc = "Finished"
  /\ IF getTotalPoints(lidar) = 0
       THEN ret' = "false" /\ log' = "No points were loaded"
       ELSE ret' = "true" /\ UNCHANGED log
  /\ pc' = "Returned"
  /\ UNCHANGED <<lidar0, odom0, op, opens, use_n_scans, view, it, m, pointcloud, ran, file,
                 fpos, lidar, odom>>

loadPointcloudFromROSBag ==
  ScanOpen \/ ScanPull \/ ScanDecode \/ ScanFeed \/ ScanCapTest \/ ScanFinish

\* ------------------------------------------------------------------------
\* loadTformFromROSBag
\* ------------------------------------------------------------------------
\* loader.cpp:138-139: sec and nsec are uint32, the arithmetic is long long
StampOfNoDiv(sec, nsec) == ToInt64(BigAdd(BigMulSmall(sec, 1000000), nsec))
StampOf(sec, nsec) ==
  ToInt64(BigAdd(BigMulSmall(sec, 1000000), BigDivSmall(nsec, 1000)))

\* loader.cpp:115-128
TformOpen ==
  /\ op = TformOp /\ pc = "Opening"
  /\ IF opens
       THEN pc' = "Iterating" /\ UNCHANGED <<ret, log>>
       ELSE pc' = "Returned" /\ ret' = "false" /\ log' = "LOADING BAG FAILED"
  /\ UNCHANGED <<lidar0, odom0, op, opens, use_n_scans, view, it, m, pointcloud, ran, file,
                 fpos, lidar, odom>>

\* loader.cpp:129-158: one pass of the loop, or its end
TformIter ==
  /\ op = TformOp /\ pc = "Iterating"
  /\ IF it <= Len(view)
       THEN LET transform_msg == view[it]
                stamp == StampOf(transform_msg.sec, transform_msg.nsec)
                T == Transform(transform_msg.pose.position[1],
                               transform_msg.pose.position[2],
                               transform_msg.pose.position[3],
                               transform_msg.pose.orientation[1],
                               transform_msg.pose.orientation[2],
                               transform_msg.pose.orientation[3],
                               transform_msg.pose.orientation[4])
            IN /\ odom' = addTransformData(odom, stamp, T)
               /\ it' = it + 1
               /\ UNCHANGED pc
       ELSE /\ pc' = "Finished"
            /\ UNCHANGED <<odom, it>>
  /\ UNCHANGED <<lidar0, odom0, op, opens, use_n_scans, view, m, pointcloud, ran, file, fpos,
                 lidar, ret, log>>

\* loader.cpp:160-165
TformFinish ==
  /\ op = TformOp /\ pc = "Finished"
  /\ IF empty(odom)
       THEN ret' = "false" /\ log' = "No odom messages found!"
       ELSE ret' = "true" /\ UNCHANGED log
  /\ pc' = "Returned"
  /\ UNCHANGED <<lidar0, odom0, op, opens, use_n_scans, view, it, m, pointcloud, ran, file,
                 fpos, lidar, odom>>

loadTformFromROSBag == TformOpen \/ TformIter \/ TformFinish

\* ------------------------------------------------------------------------
\* loadTformFromMaplabCSV
\* ------------------------------------------------------------------------
\* loader.cpp:169-171: the ifstream is constructed; its state is not tested
CsvOpen ==
  /\ op = CsvOp /\ pc = "Opening"
  /\ pc' = "Iterating"
  /\ UNCHANGED <<lidar0, odom0, op, opens, use_n_scans, view, it, m, pointcloud, ran, file,
                 fpos, lidar, odom, ret, log>>

\* loader.cpp:172-182: one pass of the while loop.  A numeric conversion that
\* throws leaves the driver through the exception.
CsvIterUnique ==
  /\ op = CsvOp /\ pc = "Iterating"
  /\ peek # EOF
  /\ LET r == getNextCSVTransform(file, fpos)
     IN /\ fpos' = r.pos
        /\ IF r.result = "sample"
             THEN /\ odom' = IF \E i \in 1..Len(odom) : odom[i].stamp = r.stamp
                               THEN odom
                             ELSE addTransformData(odom, r.stamp, r.T)
                  /\ UNCHANGED pc
           ELSE IF r.result = "throw"
             THEN pc' = "Thrown" /\ UNCHANGED odom
           ELSE UNCHANGED <<pc, odom>>
  /\ UNCHANGED <<lidar0, odom0, op, opens, use_n_scans, view, it, m, pointcloud,
                 ran, file, lidar, ret, log>>
CsvIter ==
  /\ op = CsvOp /\ pc = "Iterating"
  /\ peek # EOF
  /\ LET r == getNextCSVTransform(file, fpos)
     IN /\ fpos' = r.pos
        /\ IF r.result = "sample"
             THEN odom' = addTransformData(odom, r.stamp, r.T) /\ UNCHANGED pc
           ELSE IF r.result = "throw"
             THEN pc' = "Thrown" /\ UNCHANGED odom
           ELSE UNCHANGED <<pc, odom>>
  /\ UNCHANGED <<lidar0, odom0, op, opens, use_n_scans, view, it, m, pointcloud, ran, file,
                 lidar, ret, log>>

\* loader.cpp:172,184: the loop ends at EOF and the driver returns true
CsvReturn ==
  /\ op = CsvOp /\ pc = "Iterating"
  /\ peek = EOF
  /\ ret' = "true"
  /\ pc' = "Returned"
  /\ UNCHANGED <<lidar0, odom0, op, opens, use_n_scans, view, it, m, pointcloud, ran, file,
                 fpos, lidar, odom, log>>

loadTformFromMaplabCSV == CsvOpen \/ CsvIter \/ CsvReturn

Next == loadPointcloudFromROSBag \/ loadTformFromROSBag \/ loadTformFromMaplabCSV
Spec == Init /\ [][Next]_vars

\* ------------------------------------------------------------------------
\* parsePointcloudMsg on every record of the bounded record set
\* ------------------------------------------------------------------------
InitParse ==
  /\ op = ScanOp
  /\ pc = "Decode"
  /\ opens = TRUE
  /\ use_n_scans = MaxCap
  /\ m \in Msgs
  /\ view = <<m>>
  /\ it = 2
  /\ pointcloud = EmptyCloud
  /\ ran = {}
  /\ file = <<>>
  /\ fpos = 1
  /\ lidar = <<>>
  /\ odom = <<>>
  /\ ret = "none"
  /\ log = "none"
  /\ lidar0 = lidar
  /\ odom0 = odom
NextParse == ScanDecode \/ ScanFeed
SpecParse == InitParse /\ [][NextParse]_vars

\* ------------------------------------------------------------------------
\* getNextCSVTransform on every line of a bounded set of well-formed lines
\* ------------------------------------------------------------------------
\* cells of column 0 with the timestamp they stand for, in microseconds
TimeCells ==
  {[text |-> <<"1","0","0","0","0","0","0">>, stamp |-> 1000],
   [text |-> <<"2","5","0","0">>, stamp |-> 2],
   [text |-> <<"-","1","9","9","9">>, stamp |-> -1],
   [text |-> <<"9","9","9">>, stamp |-> 0]}
\* cells of the numeric columns with the decimal value they stand for
NumCells ==
  {[text |-> <<"1",".","0">>, val |-> [num |-> 1, scale |-> 0]],
   [text |-> <<"2",".","0">>, val |-> [num |-> 2, scale |-> 0]],
   [text |-> <<"3",".","0">>, val |-> [num |-> 3, scale |-> 0]],
   [text |-> <<"0",".","0">>, val |-> [num |-> 0, scale |-> 0]],
   [text |-> <<"1",".","5">>, val |-> [num |-> 15, scale |-> 1]],
   [text |-> <<"-","1">>, val |-> [num |-> -1, scale |-> 0]]}
\* the two cells each of the columns 2..8 is drawn from
ColumnCells ==
  << {<<"1",".","0">>, <<"1",".","5">>}, {<<"2",".","0">>, <<"-","1">>},
     {<<"3",".","0">>, <<"1",".","5">>}, {<<"1",".","0">>, <<"0",".","0">>},
     {<<"0",".","0">>, <<"-","1">>}, {<<"0",".","0">>, <<"1",".","5">>},
     {<<"0",".","0">>, <<"2",".","0">>} >>
UnusedCells == {<<"0">>, <<"q">>, <<>>}   \* column 1
ExtraCells == {<<"z">>}                   \* columns past index 8
WellFormedLines ==
  {JoinCells(<<t.text, u>> \o cols \o extra) :
     t \in TimeCells, u \in UnusedCells,
     cols \in {c \in [1..7 -> UNION Range(ColumnCells)] :
                 \A i \in 1..7 : c[i] \in ColumnCells[i]},
     extra \in SeqUpTo(ExtraCells, MaxExtraCols)}

InitLine ==
  /\ op = CsvOp
  /\ pc = "Iterating"
  /\ opens = TRUE
  /\ use_n_scans = MaxCap
  /\ view = <<>>
  /\ it = 1
  /\ m = NoMsg
  /\ pointcloud = EmptyCloud
  /\ ran = {}
  /\ file \in {FileOf(<<l>>, nl) : l \in WellFormedLines, nl \in BOOLEAN}
  /\ fpos = 1
  /\ lidar = <<>>
  /\ odom = <<>>
  /\ ret = "none"
  /\ log = "none"
  /\ lidar0 = lidar
  /\ odom0 = odom
NextLine == CsvIter \/ CsvReturn
SpecLine == InitLine /\ [][NextLine]_vars

\* ------------------------------------------------------------------------
\* the timestamp conversion of loadTformFromROSBag on pairs of header stamps
\* over the uint32 range
\* ------------------------------------------------------------------------
InitStamp ==
  /\ op = TformOp
  /\ pc = "Iterating"
  /\ opens = TRUE
  /\ use_n_scans = MaxCap
  /\ view \in [1..2 -> WidePoseMsgs]
  /\ it = 1
  /\ m = NoMsg
  /\ pointcloud = EmptyCloud
  /\ ran = {}
  /\ file = <<>>
  /\ fpos = 1
  /\ lidar = <<>>
  /\ odom = <<>>
  /\ ret = "none"
  /\ log = "none"
  /\ lidar0 = lidar
  /\ odom0 = odom
NextStamp == TformIter \/ TformFinish
SpecStamp == InitStamp /\ [][NextStamp]_vars

\* ------------------------------------------------------------------------
\* loadTformFromMaplabCSV run to its end on files whose used columns are
\* numeric: the call is a sequential program, so a step that can be taken is
\* taken
\* ------------------------------------------------------------------------
InitNumeric ==
  /\ op = CsvOp
  /\ pc = "Opening"
  /\ opens \in BOOLEAN
  /\ use_n_scans = MaxCap
  /\ view = <<>>
  /\ it = 1
  /\ m = NoMsg
  /\ pointcloud = EmptyCloud
  /\ ran = {}
  /\ file \in NumericFiles
  /\ fpos = 1
  /\ lidar = <<>>
  /\ odom = <<>>
  /\ ret = "none"
  /\ log = "none"
  /\ lidar0 = lidar
  /\ odom0 = odom
SpecNumeric ==
  InitNumeric /\ [][loadTformFromMaplabCSV]_vars
    /\ WF_vars(loadTformFromMaplabCSV)

\* ------------------------------------------------------------------------
\* Properties
\* ------------------------------------------------------------------------
Declares(msg, f) == f \in Range(msg.fields)
FiniteXYZ(p) == isfinite(p.x) /\ isfinite(p.y) /\ isfinite(p.z)

\* a scan load on an empty accumulator whose source holds more records than
\* the cap
OverCap ==
  op = ScanOp /\ opens /\ lidar0 = <<>> /\ Len(view) > use_n_scans

\* C1 (as stated): for every cap K >= 0 and every source with more than K
\* records, the accumulator never holds more than K scans during the load and
\* holds exactly K when the load returns.
C1_ExactlyCap ==
  OverCap => /\ Len(lidar) <= use_n_scans
             /\ (pc = "Returned" => Len(lidar) = use_n_scans)

\* C1 (amended): the same for every cap K >= 1; with K = 0 the first record
\* is fed before the cap is compared, so the bound and the final count are 1.
C1_ExactlyCapFromOne ==
  OverCap =>
    LET k == IF use_n_scans = 0 THEN 1 ELSE use_n_scans
    IN /\ Len(lidar) <= k
       /\ (pc = "Returned" => Len(lidar) = k)
C1_Witness ==
  OverCap /\ use_n_scans >= 1 /\ pc = "Returned" /\ Len(lidar) = use_n_scans
          /\ it <= Len(view)

\* C2: when the container or file cannot be opened, each driver returns
\* failure, reads no record or line, and leaves the accumulators as they were.
C2_OpenFailure ==
  ~opens => /\ it = 1 /\ fpos = 1
            /\ lidar = lidar0 /\ odom = odom0
            /\ (pc = "Returned" => ret = "false")
            /\ pc # "Thrown"

\* C3: a container loader called on an empty accumulator whose container opens
\* but holds no record of the queried type returns failure with the
\* empty-result message, and the accumulator is still empty.
C3_EmptyContainer ==
  (op \in {ScanOp, TformOp} /\ opens /\ view = <<>> /\ lidar0 = <<>>
     /\ odom0 = <<>> /\ pc = "Returned")
  => /\ ret = "false"
     /\ log = (IF op = ScanOp THEN "No points were loaded"
               ELSE "No odom messages found!")
     /\ lidar = <<>> /\ odom = <<>>
C3_Witness ==
  op \in {ScanOp, TformOp} /\ opens /\ view = <<>> /\ lidar0 = <<>>
    /\ odom0 = <<>> /\ pc = "Returned" /\ ret = "false"

\* C4: the text loader called on an empty accumulator returns success only
\* when at least one sample was inserted; ending with an empty accumulator it
\* returns failure.
C4_CsvEmptyFails ==
  (op = CsvOp /\ opens /\ odom0 = <<>> /\ pc = "Returned")
  => (ret = "true" <=> odom # <<>>)

\* the line at the read position of the text stream, and where it ends
LineEnd ==
  CHOOSE e \in fpos..(Len(file) + 1) :
    /\ e = Len(file) + 1 \/ file[e] = LF
    /\ \A i \in fpos..(e - 1) : file[i] # LF
CurLine == SubSeq(file, fpos, LineEnd - 1)
NumFields == Cardinality({i \in 1..Len(CurLine) : CurLine[i] = ","}) + 1
AtLine == op = CsvOp /\ pc = "Iterating" /\ peek # EOF
NextLineStart == IF LineEnd > Len(file) THEN LineEnd ELSE LineEnd + 1

\* C5: a line with at least 9 fields one of whose numeric columns does not
\* parse is dropped: no sample is inserted, the loop goes on with the next
\* line and the load still returns normally.
C5_BadNumberDropped ==
  [][(AtLine /\ getNextCSVTransform(file, fpos).result = "throw")
       => (odom' = odom /\ pc' = "Iterating" /\ fpos' = NextLineStart)]_vars

\* C6: a comment line, a blank line or a line with fewer than 9 fields yields
\* no sample, leaves the transform accumulator unchanged, does not fail the
\* load and does not stop the loop, which goes on at the next line; a line
\* that yields a sample is inserted.
Skipped == CurLine = <<>> \/ CurLine[1] = "#" \/ NumFields < 9
C6_SkippedLines ==
  [][AtLine =>
       /\ Skipped => /\ getNextCSVTransform(file, fpos).result = "none"
                     /\ odom' = odom /\ pc' = "Iterating" /\ ret' = "none"
                     /\ fpos' = NextLineStart
       /\ getNextCSVTransform(file, fpos).result = "sample"
            => /\ Len(odom') = Len(odom) + 1 /\ pc' = "Iterating"
               /\ fpos' = NextLineStart]_vars
C6_Witness ==
  /\ op = CsvOp /\ opens /\ pc = "Returned" /\ ret = "true"
  /\ file # <<>> /\ file[1] = "#"
  /\ Len(odom) > Len(odom0)

\* C7 (as stated): every point of every cloud handed to the scan accumulator
\* has finite x, y and z, whatever fields the record declares.
C7_AllFinite ==
  \A i \in 1..Len(lidar) : \A p \in Range(lidar[i].points) : FiniteXYZ(p)

\* C7 (amended): for a record that does not declare time_offset_us, every
\* point of the cloud handed to the accumulator has finite x, y and z, and a
\* finite intensity when intensity is declared.
C7_FiniteWithoutTiming ==
  (pc = "CapTest" /\ ~Declares(m, "time_offset_us"))
  => \A i \in 1..Len(lidar) : \A p \in Range(lidar[i].points) :
       FiniteXYZ(p) /\ (Declares(m, "intensity") => isfinite(p.intensity))
C7_Witness ==
  /\ pc = "CapTest" /\ ~Declares(m, "time_offset_us") /\ Declares(m, "intensity")
  /\ Len(lidar) = 1 /\ Len(lidar[1].points) = 1 /\ Len(m.rows) = 2
  /\ \E i \in 1..2 : m.rows[i].intensity = "nan" /\ FiniteXYZ(m.rows[i])

\* C8: exactly one decode branch runs per record; the time-offset branch iff
\* time_offset_us is declared, the intensity branch iff intensity is declared
\* and time_offset_us is not, the bare x/y/z branch otherwise.
C8_SchemaDetection ==
  (op = ScanOp /\ pc \in {"Feed", "CapTest"})
  => /\ Cardinality(ran) = 1
     /\ ("timing" \in ran <=> Declares(m, "time_offset_us"))
     /\ ("intensity" \in ran <=>
           (Declares(m, "intensity") /\ ~Declares(m, "time_offset_us")))
     /\ ("xyz" \in ran <=>
           (~Declares(m, "intensity") /\ ~Declares(m, "time_offset_us")))
C8_Witness ==
  /\ pc = "Feed" /\ ran = {"timing"}
  /\ \E i, j \in 1..Len(m.fields) :
       i < j /\ m.fields[i] = "intensity" /\ m.fields[j] = "time_offset_us"

\* C9: for a record without time_offset_us the produced cloud is, in input
\* order, exactly the rows whose required fields (x, y, z, and intensity when
\* declared) are all finite; its size is at most the number of rows.
Required(msg) ==
  {"x", "y", "z"} \cup (IF Declares(msg, "intensity") THEN {"intensity"} ELSE {})
Kept(msg) ==
  {i \in 1..Len(msg.rows) : \A f \in Required(msg) : isfinite(msg.rows[i][f])}
Nth(S, k) == CHOOSE i \in S : Cardinality({j \in S : j < i}) = k - 1
C9_FiniteSubsequence ==
  (op = ScanOp /\ pc = "Feed" /\ ~Declares(m, "time_offset_us"))
  => /\ Len(pointcloud.points) = Cardinality(Kept(m))
     /\ Len(pointcloud.points) <= Len(m.rows)
     /\ \A k \in 1..Len(pointcloud.points) : \A f \in Required(m) :
          pointcloud.points[k][f] = m.rows[Nth(Kept(m), k)][f]
C9_Witness ==
  /\ pc = "Feed" /\ ~Declares(m, "time_offset_us")
  /\ Len(m.rows) = 2 /\ Len(pointcloud.points) = 2
  /\ m.rows[1].x # m.rows[2].x

\* C10: for a record that declares time_offset_us the produced cloud has one
\* point per row, in order, also for rows with non-finite values.
C10_TrustedPath ==
  (op = ScanOp /\ pc = "Feed" /\ Declares(m, "time_offset_us"))
  => /\ Len(pointcloud.points) = Len(m.rows)
     /\ \A i \in 1..Len(m.rows) : \A f \in {"x", "y", "z", "time_offset_us"} :
          pointcloud.points[i][f] = m.rows[i][f]
C10_Witness ==
  /\ pc = "Feed" /\ Declares(m, "time_offset_us")
  /\ Len(m.rows) = 2 /\ Len(pointcloud.points) = 2
  /\ \E i \in 1..2 : ~FiniteXYZ(m.rows[i])

\* the comma-separated fields of a line, counted from 0
CommaPos(line) == {i \in 1..Len(line) : line[i] = ","}
FieldText(line, k) ==
  LET C == CommaPos(line)
      start == IF k = 0 THEN 1 ELSE Nth(C, k) + 1
      stop == IF k < Cardinality(C) THEN Nth(C, k + 1) - 1 ELSE Len(line)
  IN SubSeq(line, start, stop)
FirstLine ==
  LET ends == {i \in 1..Len(file) : file[i] = LF}
  IN IF ends = {} THEN file ELSE SubSeq(file, 1, Nth(ends, 1) - 1)
TimeValue(text) == (CHOOSE e \in TimeCells : e.text = text).stamp
NumValue(text) == (CHOOSE e \in NumCells : e.text = text).val

\* C11: for a non-comment line with at least 9 fields whose used columns are
\* numeric, getNextCSVTransform yields a sample whose timestamp is column 0
\* divided by 1000 with the fraction discarded, whose translation is columns
\* 2, 3, 4 and whose rotation (w, x, y, z) is columns 5, 6, 7, 8, whatever
\* column 1 and the columns past index 8 hold.
C11_ColumnContract ==
  (op = CsvOp /\ fpos > 1)
  => /\ pc # "Thrown"
     /\ Len(odom) = 1
     /\ odom[1].stamp = TimeValue(FieldText(FirstLine, 0))
     /\ odom[1].T.translation =
          <<NumValue(FieldText(FirstLine, 2)), NumValue(FieldText(FirstLine, 3)),
            NumValue(FieldText(FirstLine, 4))>>
     /\ odom[1].T.rotation =
          <<NumValue(FieldText(FirstLine, 5)), NumValue(FieldText(FirstLine, 6)),
            NumValue(FieldText(FirstLine, 7)), NumValue(FieldText(FirstLine, 8))>>
C11_Witness ==
  /\ op = CsvOp /\ fpos > 1 /\ Len(odom) = 1
  /\ FieldText(FirstLine, 1) = <<"q">>
  /\ Cardinality(CommaPos(FirstLine)) = 9
  /\ odom[1].stamp = 1000
  /\ odom[1].T.translation = <<[num |-> 1, scale |-> 0], [num |-> 2, scale |-> 0],
                               [num |-> 3, scale |-> 0]>>
  /\ odom[1].T.rotation = <<[num |-> 1, scale |-> 0], [num |-> 0, scale |-> 0],
                            [num |-> 0, scale |-> 0], [num |-> 0, scale |-> 0]>>

\* the value of a limb sequence modulo a modulus below 46340
RECURSIVE Residue(_, _)
Residue(a, M) ==
  IF a = <<>> THEN 0 ELSE (Residue(Tail(a), M) * 1000 + Head(a)) % M
\* pairwise distinct primes whose product exceeds 2^64: two numbers below
\* 2^64 with equal residues are equal
Moduli == {46337, 46327, 46309, 46307, 46301}
\* stamp = sec * 1000000 + nsec div 1000, where nsec div 1000 drops the last
\* three decimal digits
ExactStamp(stamp, sec, nsec) ==
  /\ ~stamp.neg
  /\ \A M \in Moduli :
       Residue(stamp.mag, M) =
         (Residue(sec, M) * (1000000 % M) + Residue(Rest(nsec), M)) % M
OneSecond == Big(<<1, 0, 0, 0>>)
NotAfter(a, b) ==
  BigLess(a.sec, b.sec) \/ (a.sec = b.sec /\ ~BigLess(b.nsec, a.nsec))

\* C12: the stored timestamp is seconds * 1000000 + nanoseconds div 1000,
\* without wrap-around over the whole uint32 range of both (5 s and
\* 500000000 ns give 5500000), and it is non-decreasing in (seconds,
\* nanoseconds) when the nanoseconds are below 10^9.
C12_StampConversion ==
  (op = TformOp /\ lidar0 = <<>>) =>
    LET n == Len(odom0)
    IN /\ \A i \in 1..(Len(odom) - n) :
            /\ ExactStamp(odom[n + i].stamp, view[i].sec, view[i].nsec)
            /\ (view[i].sec = Big(<<5>>) /\ view[i].nsec = Big(<<500, 0, 0>>))
                 => odom[n + i].stamp = [neg |-> FALSE, mag |-> Big(<<5, 500, 0>>)]
       /\ \A i, j \in 1..(Len(odom) - n) :
            (BigLess(view[i].nsec, OneSecond) /\ BigLess(view[j].nsec, OneSecond)
               /\ NotAfter(view[i], view[j]))
            => ~BigLess(odom[n + j].stamp.mag, odom[n + i].stamp.mag)
C12_Witness ==
  /\ op = TformOp /\ pc = "Returned" /\ Len(odom) = 2
  /\ view[1].sec = Big(<<5>>) /\ view[1].nsec = Big(<<500, 0, 0>>)
  /\ view[2].sec = Big(<<4, 294, 967, 295>>) /\ view[2].nsec = Big(<<999, 999, 999>>)
  /\ odom[1].stamp.mag = Big(<<5, 500, 0>>)
  /\ odom[2].stamp.mag = Big(<<4, 294, 967, 295, 999, 999>>)

\* C13: a scan load whose container opened returns failure exactly when no
\* scan of the accumulator holds a point when the loop is left, and success
\* otherwise, whether the loop stopped at the cap or consumed every record;
\* records that all decode to empty clouds are fed and the load fails.
NoPointStored == \A i \in 1..Len(lidar) : lidar[i].points = <<>>
C13_FailureIffNoPoints ==
  (op = ScanOp /\ opens /\ pc = "Returned")
  => /\ ret \in {"true", "false"}
     /\ ret = "false" <=> NoPointStored
     /\ (ret = "false" /\ view # <<>>) => Len(lidar) > Len(lidar0)
C13_Witness ==
  /\ op = ScanOp /\ opens /\ pc = "Returned" /\ ret = "false"
  /\ lidar0 = <<>> /\ Len(lidar) = 2 /\ NoPointStored

\* the clouds parsePointcloudMsg can produce from a record
Decoded(msg) ==
  {parsePointcloudMsg(msg, EmptyCloud, u).cloud : u \in UninitValues}

\* C14: when the source holds a record, the cap is compared only after the
\* first record was decoded and fed, whatever the cap and the scan count at
\* the call, a count at or above the cap included.
C14_AddBeforeCap ==
  (op = ScanOp /\ opens /\ view # <<>>
     /\ pc \in {"CapTest", "Finished", "Returned"})
  => /\ Len(lidar) > Len(lidar0)
     /\ lidar[Len(lidar0) + 1] \in Decoded(view[1])
C14_Witness ==
  /\ op = ScanOp /\ opens /\ view # <<>> /\ pc = "CapTest"
  /\ lidar0 = <<PriorCloud>> /\ use_n_scans <= 1
  /\ Len(lidar) = 2 /\ lidar[2] \in Decoded(view[1])

\* C15: every record pulled from the container is decoded and fed exactly
\* once, in source order, none is dropped; the loop is left before the end of
\* the source only with the scan count at or above the cap, and once the cap
\* test holds no further record is pulled or decoded.
Pulled == IF pc \in {"Decode", "Feed"} THEN it - 2 ELSE it - 1
C15_EachRecordOnce ==
  /\ [](op = ScanOp =>
          /\ Len(lidar) = Len(lidar0) + Pulled
          /\ SubSeq(lidar, 1, Len(lidar0)) = lidar0
          /\ \A i \in 1..Pulled : lidar[Len(lidar0) + i] \in Decoded(view[i])
          /\ (pc \in {"Finished", "Returned"} /\ opens /\ it <= Len(view))
               => getNumberOfScans(lidar) >= use_n_scans)
  /\ [][(op = ScanOp /\ getNumberOfScans(lidar) >= use_n_scans
           /\ pc \in {"CapTest", "Finished", "Returned"})
          => (it' = it /\ m' = m /\ lidar' = lidar
              /\ pc' \in {"Finished", "Returned"})]_vars
C15_Witness ==
  /\ op = ScanOp /\ opens /\ pc = "Returned" /\ lidar0 = <<>>
  /\ Len(view) = 3 /\ it = 3 /\ use_n_scans = 2 /\ Len(lidar) = 2
  /\ \A i \in 1..2 : lidar[i] \in Decoded(view[i])

\* the sample of each pose record, in bag order
PoseSamples ==
  [i \in 1..Len(view) |->
     [stamp |-> StampOf(view[i].sec, view[i].nsec),
      T |-> Transform(view[i].pose.position[1], view[i].pose.position[2],
                      view[i].pose.position[3], view[i].pose.orientation[1],
                      view[i].pose.orientation[2], view[i].pose.orientation[3],
                      view[i].pose.orientation[4])]]
\* a non-comment line with at least 9 fields (counted as the cells the line
\* splits into), and one whose columns 0 and 2..8 are numbers as well
UnitLine(line) ==
  line # <<>> /\ line[1] # "#" /\ Len(SplitCells(line, 1, <<>>)) >= 9
NumericUnitLine(line) ==
  /\ UnitLine(line)
  /\ stoll(FieldText(line, 0)).ok
  /\ \A k \in 2..8 : stod(FieldText(line, k)).ok
\* the start positions, in file order, of the lines read so far that satisfy U
RECURSIVE LinesRead(_, _)
LinesRead(U(_), p) ==
  IF p >= fpos THEN <<>>
  ELSE LET g == getline(file, p, <<>>)
       IN (IF U(g.line) THEN <<p>> ELSE <<>>) \o LinesRead(U, g.pos)
Inserted == SubSeq(odom, Len(odom0) + 1, Len(odom))
BagInsertsInOrder ==
  (op = TformOp /\ opens)
  => /\ SubSeq(odom, 1, Len(odom0)) = odom0
     /\ Inserted = SubSeq(PoseSamples, 1, it - 1)
     /\ pc \in {"Finished", "Returned"} => it = Len(view) + 1

C17_LoopTerminates ==
  /\ <>(pc = "Returned" /\ ret = "true" /\ (opens => fpos = Len(file) + 1))
  /\ [][AtLine => (fpos' = NextLineStart /\ fpos' > fpos
                     /\ pc' = "Iterating")]_vars
  /\ [][(op = CsvOp /\ pc = "Iterating" /\ pc' = "Returned")
          => (peek = EOF /\ fpos' = fpos)]_vars
C17_Witness ==
  /\ op = CsvOp /\ opens /\ pc = "Returned" /\ ret = "true"
  /\ fpos = Len(file) + 1 /\ file # <<>>
  /\ file[1] = "#" /\ file[Len(file)] # LF
  /\ \E i \in 1..(Len(file) - 1) : file[i] = LF /\ file[i + 1] = LF
  /\ Len(odom) = 1

====
